---- MODULE Spec2Model ----
(***************************************************************************)
(* Model of leaflet-gsheets-asc.js: two spreadsheet callbacks (addPolygons, *)
(* addPoints) that replace a polygon layer and a point layer group on a     *)
(* Leaflet map, and the click handlers that drive the sidebar panel.        *)
(***************************************************************************)
EXTENDS Integers, Sequences, FiniteSets, TLC

\* ------------------------------------------------------------------ bounds
\* Longest polygon table and longest point table handed to a callback.
MaxPolyRows == 2
MaxPointRows == 2

\* ------------------------------------------------------------ text helpers
\* A spreadsheet cell that is parsed is a sequence of characters.
Digits == {"0", "1", "2", "3", "4", "5", "6", "7", "8", "9"}

DigitVal(c) ==
  CASE c = "0" -> 0 [] c = "1" -> 1 [] c = "2" -> 2 [] c = "3" -> 3
    [] c = "4" -> 4 [] c = "5" -> 5 [] c = "6" -> 6 [] c = "7" -> 7
    [] c = "8" -> 8 [] c = "9" -> 9

ParseFail == [ok |-> FALSE, val |-> <<>>, next |-> 0]

\* The run of digits starting at s[i], read as a decimal number.
RECURSIVE ParseNumber(_, _, _)
ParseNumber(s, i, acc) ==
  IF i <= Len(s) /\ s[i] \in Digits
    THEN ParseNumber(s, i + 1, 10 * acc + DigitVal(s[i]))
    ELSE [ok |-> TRUE, val |-> acc, next |-> i]

\* One JSON value starting at s[i]: a number or a bracketed, comma-separated
\* list of values.  A number is an integer, an array a sequence.
RECURSIVE ParseValue(_, _)
RECURSIVE ParseElements(_, _, _)
ParseValue(s, i) ==
  IF i > Len(s) THEN ParseFail
  ELSE IF s[i] \in Digits THEN ParseNumber(s, i, 0)
  ELSE IF s[i] = "["
    THEN IF i + 1 <= Len(s) /\ s[i + 1] = "]"
           THEN [ok |-> TRUE, val |-> <<>>, next |-> i + 2]
           ELSE ParseElements(s, i + 1, <<>>)
  ELSE ParseFail

ParseElements(s, i, acc) ==
  LET v == ParseValue(s, i) IN
  IF ~v.ok THEN ParseFail
  ELSE IF v.next > Len(s) THEN ParseFail
  ELSE IF s[v.next] = "," THEN ParseElements(s, v.next + 1, Append(acc, v.val))
  ELSE IF s[v.next] = "]"
    THEN [ok |-> TRUE, val |-> Append(acc, v.val), next |-> v.next + 1]
  ELSE ParseFail

\* JSON.parse: the whole text must be one value; otherwise it throws.
JSONparse(s) ==
  LET v == ParseValue(s, 1) IN
  IF v.ok /\ v.next = Len(s) + 1
    THEN [threw |-> FALSE, val |-> v.val]
    ELSE [threw |-> TRUE, val |-> <<>>]

\* ------------------------------------------------------------- sheet rows
\* "[[1,2],[3,4]]", "[[5,6]]" and the unterminated "[[1,2]".
GeomLine == <<"[", "[", "1", ",", "2", "]", ",", "[", "3", ",", "4", "]", "]">>
GeomShort == <<"[", "[", "5", ",", "6", "]", "]">>
GeomBad == <<"[", "[", "1", ",", "2", "]">>

\* Rows of the polygon sheet.
RowRoad ==
  [include |-> "y", geometry |-> GeomLine, geotype |-> "LineString",
   Title |-> "Hwy 30", Type |-> "Road", file_num |-> "F1", myinfo |-> "widening"]
RowBridge ==
  [include |-> "y", geometry |-> GeomShort, geotype |-> "LineString",
   Title |-> "Bayou", Type |-> "Bridge", file_num |-> "F2", myinfo |-> "repair"]
\* Not included ("Y" is not "y"); its geometry is never parsed.
RowSkipped ==
  [include |-> "Y", geometry |-> GeomBad, geotype |-> "Polygon",
   Title |-> "Draft", Type |-> "Trail", file_num |-> "F3", myinfo |-> "draft"]
\* Included, with geometry that JSON.parse rejects.
RowBad ==
  [include |-> "y", geometry |-> GeomBad, geotype |-> "Polygon",
   Title |-> "Broken", Type |-> "Levee", file_num |-> "F4", myinfo |-> "broken"]

PolyRows == {RowRoad, RowBridge, RowSkipped, RowBad}

\* Rows of the point sheet.
RowFlag ==
  [lat |-> "30.1", long |-> "-90.2", Type |-> "Stop", Title |-> "Depot",
   Comments |-> "open", Marker_Icon |-> "flag", Color |-> "red"]
RowStar ==
  [lat |-> "30.3", long |-> "-90.9", Type |-> "Park", Title |-> "Lot",
   Comments |-> "full", Marker_Icon |-> "star", Color |-> "blue"]

PointRows == {RowFlag, RowStar}

\* The tables of at most n rows over S in which no row occurs twice.
SeqsUpTo(S, n) ==
  UNION {{t \in [1..k -> S] : \A i, j \in 1..k : t[i] = t[j] => i = j} : k \in 0..n}

\* The tables Tabletop can hand to the two callbacks.
PolyData == SeqsUpTo(PolyRows, MaxPolyRows)
PointData == SeqsUpTo(PointRows, MaxPointRows)

\* ------------------------------------------------------------------ state
VARIABLES
  polygonLayer,     \* var polygonLayer: the layer it refers to, or NULL
  pointGroupLayer,  \* var pointGroupLayer: the group it refers to, or NULL
  mapLayers,        \* the layers attached to the map
  features,         \* the Features held by each live L.geoJSON layer
  markers,          \* the markers held by each live L.layerGroup
  sidebar,          \* the panel: open or closed, #sidebar-title, #sidebar-content
  tabletop,         \* the sheets whose Tabletop callback has not fired yet
  trace             \* history: the last handler run and the arguments it got

vars == <<polygonLayer, pointGroupLayer, mapLayers, features, markers, sidebar,
          tabletop, trace>>

\* A layer object is named by its kind and a number; NULL is the value of an
\* unassigned slot (undefined != null is false in JavaScript).
NULL == [kind |-> "undefined", n |-> 0]
basemap == [kind |-> "tileLayer", n |-> 0]
Layer(kind, n) == [kind |-> kind, n |-> n]

\* The heap of layer contents when no dynamic layer exists.
NoLayers == [l \in {} |-> <<>>]

\* The part of the state the two callbacks work on, as one record.
Cur ==
  [polygonLayer |-> polygonLayer, pointGroupLayer |-> pointGroupLayer,
   mapLayers |-> mapLayers, features |-> features, markers |-> markers]

\* The state once the script has run top to bottom: the basemap is attached,
\* both slots are unassigned.
M0 ==
  [polygonLayer |-> NULL, pointGroupLayer |-> NULL, mapLayers |-> {basemap},
   features |-> NoLayers, markers |-> NoLayers]

\* Layers some slot or the map still refers to.
Live(m) == m.mapLayers \cup ({m.polygonLayer, m.pointGroupLayer} \ {NULL})

\* A newly constructed object is none of the objects still referred to.
NewLayer(m, kind) ==
  LET used == {l.n : l \in {x \in Live(m) : x.kind = kind}}
  IN  Layer(kind, CHOOSE n \in 1..(Cardinality(used) + 1) :
                    n \notin used /\ \A k \in 1..(n - 1) : k \in used)

\* Objects nothing refers to any more are dropped from the heap.
Collect(m) ==
  [m EXCEPT
     !.features = [l \in {x \in Live(m) : x.kind = "geoJSON"} |-> m.features[l]],
     !.markers = [l \in {x \in Live(m) : x.kind = "layerGroup"} |-> m.markers[l]]]

\* remove() that detaches nothing.
remove_noop(m, layer) == m

\* layer.remove(): detach the layer from the map it is on, if any.
remove(m, layer) == [m EXCEPT !.mapLayers = @ \ {layer}]

\* --------------------------------------------------------------- polygons
\* The Feature pushed for an included row.
Feature(r, coords) ==
  [type |-> "Feature",
   geometry |-> [type |-> r.geotype, coordinates |-> coords],
   properties |-> [Title |-> r.Title, type |-> r.Type,
                   file_num |-> r.file_num, myinfo |-> r.myinfo]]

\* A loop that tests include for truthiness instead of comparing it with "y".
RECURSIVE pushRows_truthy(_, _, _)
pushRows_truthy(data, row, feats) ==
  IF row > Len(data) THEN [threw |-> FALSE, features |-> feats]
  ELSE IF data[row].include # ""
    THEN LET coords == JSONparse(data[row].geometry) IN
         IF coords.threw
           THEN [threw |-> TRUE, features |-> feats]
           ELSE pushRows_truthy(data, row + 1,
                                Append(feats, Feature(data[row], coords.val)))
  ELSE pushRows_truthy(data, row + 1, feats)

\* The for-in loop over the rows, from index row on, with the features pushed
\* so far.  An included row whose geometry does not parse ends the loop with
\* an exception; features is then the local array as the exception found it.
RECURSIVE pushRows(_, _, _)
pushRows(data, row, feats) ==
  IF row > Len(data) THEN [threw |-> FALSE, features |-> feats]
  ELSE IF data[row].include = "y"
    THEN LET coords == JSONparse(data[row].geometry) IN
         IF coords.threw
           THEN [threw |-> TRUE, features |-> feats]
           ELSE pushRows(data, row + 1,
                         Append(feats, Feature(data[row], coords.val)))
  ELSE pushRows(data, row + 1, feats)

\* A loop that swallows the parse error and keeps the features pushed so far.
geojsonPolys_partial(data) ==
  [threw |-> FALSE, features |-> pushRows(data, 1, <<>>).features]

\* geojsonPolys.features after the loop, or the exception that ended it.
geojsonPolys(data) == pushRows(data, 1, <<>>)

\* The new layer assigned to a local that shadows the slot.
attachPolygons_shadowed(m, feats) ==
  LET layer == NewLayer(m, "geoJSON") IN
  [m EXCEPT !.mapLayers = @ \cup {layer},
            !.features = [l \in DOMAIN @ \cup {layer} |->
                            IF l = layer THEN feats ELSE @[l]]]

\* L.geoJSON(geojsonPolys, ...).addTo(map), assigned to polygonLayer.
attachPolygons(m, feats) ==
  LET layer == NewLayer(m, "geoJSON") IN
  [m EXCEPT !.polygonLayer = layer,
            !.mapLayers = @ \cup {layer},
            !.features = [l \in DOMAIN @ \cup {layer} |->
                            IF l = layer THEN feats ELSE @[l]]]

\* addPolygons that clears every dynamic layer, the point group included,
\* before it builds its own.
addPolygons_clearsAll(m, data) ==
  LET m1 == [m EXCEPT !.mapLayers = {l \in @ : l.kind \notin {"geoJSON", "layerGroup"}}]
      built == geojsonPolys(data)
  IN  IF built.threw THEN Collect(m1)
      ELSE Collect(attachPolygons(m1, built.features))

\* function addPolygons(data), run to completion or to its exception.
addPolygons(m, data) ==
  LET m1 == IF m.polygonLayer # NULL THEN remove(m, m.polygonLayer) ELSE m
      built == geojsonPolys(data)
  IN  IF built.threw THEN Collect(m1)
      ELSE Collect(attachPolygons(m1, built.features))

\* ----------------------------------------------------------------- points
\* A marker whose icon name and marker colour are swapped.
Marker_swapped(r) ==
  [latlng |-> <<r.lat, r.long>>,
   popup |-> <<"<h2>", r.Type, "</h2><br>", r.Title, "<br>", r.Comments>>,
   icon |-> [icon |-> r.Color, iconColor |-> "white",
             markerColor |-> r.Marker_Icon, prefix |-> "fa",
             extraClasses |-> "flip-horizontal"]]

\* The marker made for one row: position, popup text and AwesomeMarkers icon.
Marker(r) ==
  [latlng |-> <<r.lat, r.long>>,
   popup |-> <<"<h2>", r.Type, "</h2><br>", r.Title, "<br>", r.Comments>>,
   icon |-> [icon |-> r.Marker_Icon, iconColor |-> "white",
             markerColor |-> r.Color, prefix |-> "fa",
             extraClasses |-> "flip-horizontal"]]

\* The for loop over the rows: one marker added to the group per row.
RECURSIVE addMarkers(_, _, _)
addMarkers(data, row, group) ==
  IF row > Len(data) THEN group
  ELSE addMarkers(data, row + 1, Append(group, Marker(data[row])))

\* A group that is created only when there is a row to show.
attachPoints_nonEmpty(m, data) ==
  IF data = <<>> THEN m
  ELSE LET layer == NewLayer(m, "layerGroup") IN
       [m EXCEPT !.pointGroupLayer = layer,
                 !.mapLayers = @ \cup {layer},
                 !.markers = [l \in DOMAIN @ \cup {layer} |->
                                IF l = layer THEN addMarkers(data, 1, <<>>) ELSE @[l]]]

\* L.layerGroup().addTo(map), assigned to pointGroupLayer, then filled.
attachPoints(m, data) ==
  LET layer == NewLayer(m, "layerGroup") IN
  [m EXCEPT !.pointGroupLayer = layer,
            !.mapLayers = @ \cup {layer},
            !.markers = [l \in DOMAIN @ \cup {layer} |->
                           IF l = layer THEN addMarkers(data, 1, <<>>) ELSE @[l]]]

\* addPoints whose existence check was copied from addPolygons unchanged.
addPoints_wrongSlot(m, data) ==
  LET m1 == IF m.polygonLayer # NULL THEN remove(m, m.polygonLayer) ELSE m
  IN  Collect(attachPoints(m1, data))

\* function addPoints(data).
addPoints(m, data) ==
  LET m1 == IF m.pointGroupLayer # NULL THEN remove(m, m.pointGroupLayer) ELSE m
  IN  Collect(attachPoints(m1, data))

\* ---------------------------------------------------------------- sidebar
\* The panel as sidebar.addPanel(panelContent) leaves it.
panelContent == [open |-> FALSE, title |-> " No item selected", content |-> ""]

\* The map click handler with its two text() calls enabled.
mapClick_clearing(sb) == [open |-> FALSE, title |-> "No item selected", content |-> ""]

\* map.on('click', ...): sidebar.close(panelID); the two text() calls are
\* commented out.
mapClick(sb) == [sb EXCEPT !.open = FALSE]

\* The feature click handler without L.DomEvent.stopPropagation(e).
polygonClick_propagating(sb, feature) ==
  [stopped |-> FALSE,
   sidebar |-> [open |-> TRUE, title |-> feature.properties.type,
                content |-> feature.properties.myinfo]]

\* The click handler bound to every feature of the polygon layer.  stopped
\* says whether it stopped the event from reaching the map.
polygonClick(sb, feature) ==
  [stopped |-> TRUE,
   sidebar |-> [open |-> TRUE, title |-> feature.properties.type,
                content |-> feature.properties.myinfo]]

\* A click on a feature: its own handler, then the map's unless stopped.
dispatchClick(sb, feature) ==
  LET r == polygonClick(sb, feature) IN
  IF r.stopped THEN r.sidebar ELSE mapClick(r.sidebar)

\* The features a pointer event can hit: those of the polygon layers attached
\* to the map, each named by its layer and its place in the layer.
Rendered(m) ==
  UNION {{<<l, i>> : i \in 1..Len(m.features[l])} :
           l \in {x \in m.mapLayers : x.kind = "geoJSON"}}

\* --------------------------------------------------------------- actions
\* The static parish boundary overlay, attached when its file has loaded.
pbounds == [kind |-> "boundary", n |-> 0]

NoCalls ==
  [op |-> "load", polysCalled |-> FALSE, polysData |-> <<>>,
   ptsCalled |-> FALSE, ptsData |-> <<>>, clicked |-> <<>>]

Init ==
  /\ polygonLayer = M0.polygonLayer
  /\ pointGroupLayer = M0.pointGroupLayer
  /\ mapLayers = M0.mapLayers
  /\ features = M0.features
  /\ markers = M0.markers
  /\ sidebar = panelContent
  /\ tabletop = {"points", "lines"}
  /\ trace = NoCalls

Becomes(m) ==
  /\ polygonLayer' = m.polygonLayer
  /\ pointGroupLayer' = m.pointGroupLayer
  /\ mapLayers' = m.mapLayers
  /\ features' = m.features
  /\ markers' = m.markers

\* One run of addPolygons(data), whoever calls it.
RunAddPolygons(data) ==
  /\ Becomes(addPolygons(Cur, data))
  /\ trace' = [trace EXCEPT !.op = "addPolygons", !.polysCalled = TRUE,
                            !.polysData = data]
  /\ UNCHANGED sidebar

\* One run of addPoints(data), whoever calls it.
RunAddPoints(data) ==
  /\ Becomes(addPoints(Cur, data))
  /\ trace' = [trace EXCEPT !.op = "addPoints", !.ptsCalled = TRUE,
                            !.ptsData = data]
  /\ UNCHANGED sidebar

\* The callbacks invoked with fresh tables any number of times.
CallAddPolygons == \E data \in PolyData : RunAddPolygons(data) /\ UNCHANGED tabletop

CallAddPoints == \E data \in PointData : RunAddPoints(data) /\ UNCHANGED tabletop

\* init(): each sheet is requested once and its callback fires at most once.
TabletopLines ==
  /\ "lines" \in tabletop
  /\ tabletop' = tabletop \ {"lines"}
  /\ \E data \in PolyData : RunAddPolygons(data)

TabletopPoints ==
  /\ "points" \in tabletop
  /\ tabletop' = tabletop \ {"points"}
  /\ \E data \in PointData : RunAddPoints(data)

\* $.getJSON(...) callback: the boundary overlay is added to the map.
LoadBoundary ==
  /\ pbounds \notin mapLayers
  /\ mapLayers' = mapLayers \cup {pbounds}
  /\ trace' = [trace EXCEPT !.op = "boundary"]
  /\ UNCHANGED <<polygonLayer, pointGroupLayer, features, markers, sidebar, tabletop>>

\* The user clicks a rendered polygon feature.
FeatureClick ==
  \E p \in Rendered(Cur) :
    LET feature == features[p[1]][p[2]] IN
    /\ sidebar' = dispatchClick(sidebar, feature)
    /\ trace' = [trace EXCEPT !.op = "featureClick", !.clicked = <<feature>>]
    /\ UNCHANGED <<polygonLayer, pointGroupLayer, mapLayers, features, markers,
                   tabletop>>

\* The user clicks the map where no polygon feature is.
MapClick ==
  /\ sidebar' = mapClick(sidebar)
  /\ trace' = [trace EXCEPT !.op = "mapClick"]
  /\ UNCHANGED <<polygonLayer, pointGroupLayer, mapLayers, features, markers,
                 tabletop>>

Next == CallAddPolygons \/ CallAddPoints \/ LoadBoundary \/ FeatureClick \/ MapClick

\* The callbacks called any number of times, in any order.
Spec == Init /\ [][Next]_vars

NextPage == TabletopLines \/ TabletopPoints \/ LoadBoundary \/ FeatureClick \/ MapClick

\* One page load: each callback fires at most once, in either order.
SpecPage == Init /\ [][NextPage]_vars

\* ---------------------------------------------------------------- claims
\* What the claims speak of, stated without the callbacks' own definitions.
PolygonLayersOnMap == {l \in mapLayers : l.kind = "geoJSON"}
PointGroupsOnMap == {l \in mapLayers : l.kind = "layerGroup"}

WellFormedGeometry == {GeomLine, GeomShort}
IsIncluded(r) == r.include = "y"
IncludedRows(data) == SelectSeq(data, IsIncluded)
HasMalformedRow(data) ==
  \E i \in 1..Len(data) :
    IsIncluded(data[i]) /\ data[i].geometry \notin WellFormedGeometry

\* The displayed text of the feature clicked last.
ShowsClicked ==
  /\ sidebar.title = trace.clicked[1].properties.type
  /\ sidebar.content = trace.clicked[1].properties.myinfo

\* C1: after any sequence of completed addPolygons and addPoints calls, at
\* most one polygon layer and at most one point layer group are attached to
\* the map.
C1_AtMostOneLayerEach ==
  /\ Cardinality(PolygonLayersOnMap) <= 1
  /\ Cardinality(PointGroupsOnMap) <= 1

\* Both callbacks have run more than once (a second object was constructed
\* while the first was still referred to) and one layer of each kind is shown.
C1_Witness ==
  /\ polygonLayer = Layer("geoJSON", 2)
  /\ pointGroupLayer = Layer("layerGroup", 2)
  /\ PolygonLayersOnMap = {polygonLayer}
  /\ PointGroupsOnMap = {pointGroupLayer}

\* C2: when the table given to addPolygons has an included row with malformed
\* geometry, no polygon layer is attached afterwards: neither a new one (not
\* even one holding the rows before the bad row) nor the previous one.
C2_MalformedLeavesNoPolygonLayer ==
  (trace.polysCalled /\ HasMalformedRow(trace.polysData))
    => /\ PolygonLayersOnMap = {}
       /\ Rendered(Cur) = {}

\* A good row precedes the bad one, and a previous layer existed: the slot
\* still refers to it.
C2_Witness ==
  /\ trace.op = "addPolygons"
  /\ trace.polysData = <<RowRoad, RowBad>>
  /\ polygonLayer # NULL
  /\ PolygonLayersOnMap = {}

\* C3: an addPolygons call with well-formed rows made while an earlier call's
\* layer is attached detaches that layer; the slot refers to a new layer, it
\* is the only polygon layer attached, and the features a pointer event can
\* reach are exactly the included rows of the second call.
C3_SecondCallReplacesFirst ==
  [][(/\ trace'.op = "addPolygons"
      /\ ~HasMalformedRow(trace'.polysData)
      /\ PolygonLayersOnMap # {})
       => /\ PolygonLayersOnMap \cap PolygonLayersOnMap' = {}
          /\ polygonLayer' \notin {NULL, polygonLayer}
          /\ PolygonLayersOnMap' = {polygonLayer'}
          /\ Rendered(Cur)' =
               {<<polygonLayer', i>> : i \in 1..Len(IncludedRows(trace'.polysData))}
          /\ \A i \in 1..Len(features'[polygonLayer']) :
               features'[polygonLayer'][i].properties.file_num
                 = IncludedRows(trace'.polysData)[i].file_num]_vars

\* The second layer shows the bridge only; the first object is gone.
C3_Witness ==
  /\ trace.op = "addPolygons"
  /\ trace.polysData = <<RowBridge>>
  /\ polygonLayer = Layer("geoJSON", 2)
  /\ PolygonLayersOnMap = {polygonLayer}

\* C4: for rows with well-formed geometry, the features built are, in order,
\* one per row whose include is exactly "y" and none for any other row.
C4_FeaturesAreIncludedRowsInOrder ==
  (trace.polysCalled /\ ~HasMalformedRow(trace.polysData))
    => /\ polygonLayer # NULL
       /\ Len(features[polygonLayer]) = Len(IncludedRows(trace.polysData))
       /\ \A i \in 1..Len(features[polygonLayer]) :
            features[polygonLayer][i].properties.file_num
              = IncludedRows(trace.polysData)[i].file_num

\* A row with include "Y" and unparsable geometry ahead of an included row.
C4_Witness ==
  /\ trace.polysCalled
  /\ trace.polysData = <<RowSkipped, RowBridge>>
  /\ polygonLayer # NULL
  /\ Len(features[polygonLayer]) = 1

\* C5 as claimed: a map click after a feature click closes the panel and
\* neither field still shows the clicked feature's label or info.
C5_MapClickClearsPanel ==
  (trace.op = "mapClick" /\ trace.clicked # <<>>)
    => /\ ~sidebar.open
       /\ sidebar.title # trace.clicked[1].properties.type
       /\ sidebar.content # trace.clicked[1].properties.myinfo

\* C5 as the code has it: a map click after a feature click closes the panel
\* and leaves both fields showing the clicked feature's label and info.
C5_MapClickClosesAndKeepsText ==
  (trace.op = "mapClick" /\ trace.clicked # <<>>)
    => (~sidebar.open /\ ShowsClicked)

C5_Witness ==
  /\ trace.op = "mapClick"
  /\ trace.clicked # <<>>
  /\ ~sidebar.open

\* C6: once a click on a rendered feature has been handled, the panel is open
\* with the feature's category label as title and its info blob as body.
C6_FeatureClickOpensPanel ==
  trace.op = "featureClick" => (sidebar.open /\ ShowsClicked)

C6_Witness ==
  /\ trace.op = "featureClick"
  /\ trace.clicked # <<>>
  /\ sidebar.title = "Bridge"
  /\ sidebar.open

\* C7: addPolygons with no included row and addPoints with no row each leave
\* an empty layer that the slot refers to and that is attached to the map.
C7_EmptyDataGivesEmptyLayer ==
  /\ (trace.polysCalled /\ IncludedRows(trace.polysData) = <<>>)
       => /\ polygonLayer # NULL
          /\ polygonLayer \in mapLayers
          /\ features[polygonLayer] = <<>>
  /\ (trace.ptsCalled /\ trace.ptsData = <<>>)
       => /\ pointGroupLayer # NULL
          /\ pointGroupLayer \in mapLayers
          /\ markers[pointGroupLayer] = <<>>

C7_Witness ==
  /\ trace.polysCalled /\ trace.polysData = <<RowSkipped>>
  /\ trace.ptsCalled /\ trace.ptsData = <<>>
  /\ polygonLayer \in mapLayers
  /\ pointGroupLayer \in mapLayers

\* C8: a run of addPolygons, failed or not, leaves the point slot, the point
\* groups on the map and their markers as they were; a run of addPoints
\* leaves the polygon slot, the polygon layers on the map and their features
\* as they were.
C8_CallbacksWriteOwnSlotOnly ==
  [][/\ trace'.op = "addPolygons"
          => UNCHANGED <<pointGroupLayer, PointGroupsOnMap, markers>>
     /\ trace'.op = "addPoints"
          => UNCHANGED <<polygonLayer, PolygonLayersOnMap, features>>]_vars

\* A failed addPolygons run with a point group on the map.
C8_Witness ==
  /\ trace.op = "addPolygons"
  /\ HasMalformedRow(trace.polysData)
  /\ pointGroupLayer \in mapLayers
  /\ Len(markers[pointGroupLayer]) = 2

\* C9: the point group holds one marker per row of the last table, in row
\* order, each at the row's lat/long with the row's Marker_Icon and Color and
\* the prefix "fa"; no other point group is on the map.
C9_OneMarkerPerRow ==
  trace.ptsCalled
    => /\ pointGroupLayer # NULL
       /\ PointGroupsOnMap = {pointGroupLayer}
       /\ Len(markers[pointGroupLayer]) = Len(trace.ptsData)
       /\ \A i \in 1..Len(trace.ptsData) :
            LET mk == markers[pointGroupLayer][i]
                r == trace.ptsData[i]
            IN  /\ mk.latlng = <<r.lat, r.long>>
                /\ mk.icon.icon = r.Marker_Icon
                /\ mk.icon.markerColor = r.Color
                /\ mk.icon.prefix = "fa"

\* The row at 30.1/-90.2 with icon flag and colour red, second in the table
\* of a later call.
C9_Witness ==
  /\ trace.ptsCalled
  /\ trace.ptsData = <<RowStar, RowFlag>>
  /\ pointGroupLayer = Layer("layerGroup", 2)
  /\ markers[pointGroupLayer][2].latlng = <<"30.1", "-90.2">>
  /\ markers[pointGroupLayer][2].icon.icon = "flag"
  /\ markers[pointGroupLayer][2].icon.markerColor = "red"

\* The layers a callback can attach, leaving out the static ones.
Dynamic(m) ==
  [m EXCEPT !.mapLayers = {l \in @ : l.kind \in {"geoJSON", "layerGroup"}}]

\* C10: when both callbacks of a page load have fired, the slots, the attached
\* polygon layer and the attached point group are what either order of the
\* two calls gives, also when addPolygons fails.
C10_OrderDoesNotMatter ==
  tabletop = {}
    => /\ Dynamic(Cur) = Dynamic(addPoints(addPolygons(M0, trace.polysData), trace.ptsData))
       /\ Dynamic(Cur) = Dynamic(addPolygons(addPoints(M0, trace.ptsData), trace.polysData))

\* Points arrived first, then a polygon table that fails after a good row.
C10_Witness ==
  /\ tabletop = {}
  /\ trace.op = "addPolygons"
  /\ trace.polysData = <<RowRoad, RowBad>>
  /\ trace.ptsData = <<RowFlag, RowStar>>

====
